---- MODULE Spec2Model ----
(***************************************************************************)
(* Model of the portfolio chat backend (src/server.js, the variant with    *)
(* the lifetime spend limit, lines 327-1018): the usage governor           *)
(* (resetUsageCounters, canMakeOpenAIRequest, updateUsageStats), the       *)
(* upstream call (callOpenAI) and the POST /api/chat handler.              *)
(*                                                                         *)
(* Money is counted in micro-dollars so that the arithmetic is exact:      *)
(* 0.002 $ per 1000 tokens is 2000, the 4.0 $ lifetime limit is 4000000.   *)
(* The source computes with IEEE doubles; rounding is not modelled.        *)
(*                                                                         *)
(* Node.js runs a handler to completion until it awaits: the only          *)
(* suspension point of the chat handler is the `await axios.post` inside   *)
(* callOpenAI.  The synchronous part of a handler is split at each read    *)
(* of the clock (each call of canMakeOpenAIRequest) so that the date may   *)
(* change between two reads; no other handler runs in between.             *)
(***************************************************************************)
EXTENDS Integers, Sequences, FiniteSets, TLC

(***************************************************************************)
(* Bounds of the model.                                                    *)
(***************************************************************************)
\* chat requests that may be in flight at the same time
MaxRequests == 2
\* USAGE_LIMITS.DAILY_REQUESTS, 50 in src/server.js:403, scaled down
DAILY_REQUESTS == 2
\* USAGE_LIMITS.MONTHLY_REQUESTS, 1000 in src/server.js:404, scaled down
MONTHLY_REQUESTS == 3
\* a scaled calendar: days in a month, months in a year
DaysPerMonth == 2
MonthsPerYear == 2
\* the last day the clock reaches, counted from the day the process started
MaxDay == 5
\* the largest total_tokens an upstream reply reports
MaxTokens == 1000000

(***************************************************************************)
(* Program constants (micro-dollars).                                      *)
(***************************************************************************)
COST_PER_1K_TOKENS == 2000
MAX_MONTHLY_COST == 4500000
LIFETIME_SPEND_LIMIT == 4000000
MaxMessageLength == 1000

\* usage.total_tokens of an upstream reply that carries it: a natural number,
\* as the upstream API reports it (a usage object without total_tokens is not modelled)
TokenChoices == {0, MaxTokens}

\* choices[0].message.content of an upstream reply (src/server.test.js:125)
Completions == {"Test OpenAI response"}
\* the choices array of a 2xx payload: empty, or one completion
ChoicesDomain == {<<>>} \cup {<<c>> : c \in Completions}
\* the ways the upstream call fails before anything is recorded: no response,
\* a status outside 2xx, a 2xx payload without a usage object
FailureKinds == {"network", "status", "noUsage"}

(***************************************************************************)
(* The clock.  A date is the index of a day; Date.getDate and              *)
(* Date.getMonth are its day of the month and its month of the year.       *)
(***************************************************************************)
Dates == 0..MaxDay

getDate(t) == (t % DaysPerMonth) + 1
getMonth(t) == (t \div DaysPerMonth) % MonthsPerYear

(***************************************************************************)
(* Usage governor.                                                         *)
(***************************************************************************)
\* faulty variant: a new month starts a fresh budget (lifetime estimate and latch cleared)
resetUsageCounters_freshBudget(u, n) ==
    LET lastReset == u.lastReset
        newDay == getDate(n) # getDate(lastReset) \/ getMonth(n) # getMonth(lastReset)
        newMonth == getMonth(n) # getMonth(lastReset)
    IN [u EXCEPT !.dailyRequests = IF newDay THEN 0 ELSE @,
                 !.monthlyRequests = IF newMonth THEN 0 ELSE @,
                 !.totalCost = IF newMonth THEN 0 ELSE @,
                 !.lifetimeSpend = IF newMonth THEN 0 ELSE @,
                 !.openaiDisabled = IF newMonth THEN FALSE ELSE @,
                 !.lastReset = n]

\* faulty variant: the monthly reset also zeroes lifetimeSpend
resetUsageCounters_zeroesLifetime(u, n) ==
    LET lastReset == u.lastReset
        newDay == getDate(n) # getDate(lastReset) \/ getMonth(n) # getMonth(lastReset)
        newMonth == getMonth(n) # getMonth(lastReset)
    IN [u EXCEPT !.dailyRequests = IF newDay THEN 0 ELSE @,
                 !.monthlyRequests = IF newMonth THEN 0 ELSE @,
                 !.totalCost = IF newMonth THEN 0 ELSE @,
                 !.lifetimeSpend = IF newMonth THEN 0 ELSE @,
                 !.lastReset = n]

\* faulty variant: a new day is recognised by the day of the month alone
resetUsageCounters_dayOfMonthOnly(u, n) ==
    LET lastReset == u.lastReset
        newDay == getDate(n) # getDate(lastReset)
        newMonth == getMonth(n) # getMonth(lastReset)
    IN [u EXCEPT !.dailyRequests = IF newDay THEN 0 ELSE @,
                 !.monthlyRequests = IF newMonth THEN 0 ELSE @,
                 !.totalCost = IF newMonth THEN 0 ELSE @,
                 !.lastReset = n]

resetUsageCounters(u, n) ==
    LET lastReset == u.lastReset
        newDay == getDate(n) # getDate(lastReset) \/ getMonth(n) # getMonth(lastReset)
        newMonth == getMonth(n) # getMonth(lastReset)
    IN [u EXCEPT !.dailyRequests = IF newDay THEN 0 ELSE @,
                 !.monthlyRequests = IF newMonth THEN 0 ELSE @,
                 !.totalCost = IF newMonth THEN 0 ELSE @,
                 !.lastReset = n]

\* COST_PER_1K_TOKENS * 0.5
estimatedRequestCost == (COST_PER_1K_TOKENS * 5) \div 10

\* faulty variant: the lifetime check is missing (as in the first variant, lines 50-73)
canMakeOpenAIRequest_noLifetime(u, n) ==
    LET r == resetUsageCounters(u, n)
    IN IF r.dailyRequests >= DAILY_REQUESTS
         THEN [stats |-> r, result |-> FALSE]
       ELSE IF r.monthlyRequests >= MONTHLY_REQUESTS
         THEN [stats |-> r, result |-> FALSE]
       ELSE IF r.totalCost + estimatedRequestCost >= MAX_MONTHLY_COST
         THEN [stats |-> r, result |-> FALSE]
       ELSE [stats |-> r, result |-> TRUE]

\* faulty variant: the request ceilings are compared with > instead of >=
canMakeOpenAIRequest_offByOne(u, n) ==
    LET r == resetUsageCounters(u, n)
    IN IF r.lifetimeSpend >= LIFETIME_SPEND_LIMIT
         THEN [stats |-> [r EXCEPT !.openaiDisabled = TRUE], result |-> FALSE]
       ELSE IF r.dailyRequests > DAILY_REQUESTS
         THEN [stats |-> r, result |-> FALSE]
       ELSE IF r.monthlyRequests > MONTHLY_REQUESTS
         THEN [stats |-> r, result |-> FALSE]
       ELSE IF r.totalCost + estimatedRequestCost >= MAX_MONTHLY_COST
         THEN [stats |-> r, result |-> FALSE]
       ELSE [stats |-> r, result |-> TRUE]

\* faulty variant: the daily ceiling is not checked
canMakeOpenAIRequest_noDaily(u, n) ==
    LET r == resetUsageCounters(u, n)
    IN IF r.lifetimeSpend >= LIFETIME_SPEND_LIMIT
         THEN [stats |-> [r EXCEPT !.openaiDisabled = TRUE], result |-> FALSE]
       ELSE IF r.monthlyRequests >= MONTHLY_REQUESTS
         THEN [stats |-> r, result |-> FALSE]
       ELSE IF r.totalCost + estimatedRequestCost >= MAX_MONTHLY_COST
         THEN [stats |-> r, result |-> FALSE]
       ELSE [stats |-> r, result |-> TRUE]

\* faulty variant: the monthly ceiling is not checked
canMakeOpenAIRequest_noMonthly(u, n) ==
    LET r == resetUsageCounters(u, n)
    IN IF r.lifetimeSpend >= LIFETIME_SPEND_LIMIT
         THEN [stats |-> [r EXCEPT !.openaiDisabled = TRUE], result |-> FALSE]
       ELSE IF r.dailyRequests >= DAILY_REQUESTS
         THEN [stats |-> r, result |-> FALSE]
       ELSE IF r.totalCost + estimatedRequestCost >= MAX_MONTHLY_COST
         THEN [stats |-> r, result |-> FALSE]
       ELSE [stats |-> r, result |-> TRUE]

\* faulty variant: a permitted request is counted at the check (check-and-increment)
canMakeOpenAIRequest_reserving(u, n) ==
    LET r == resetUsageCounters(u, n)
    IN IF r.lifetimeSpend >= LIFETIME_SPEND_LIMIT
         THEN [stats |-> [r EXCEPT !.openaiDisabled = TRUE], result |-> FALSE]
       ELSE IF r.dailyRequests >= DAILY_REQUESTS
         THEN [stats |-> r, result |-> FALSE]
       ELSE IF r.monthlyRequests >= MONTHLY_REQUESTS
         THEN [stats |-> r, result |-> FALSE]
       ELSE IF r.totalCost + estimatedRequestCost >= MAX_MONTHLY_COST
         THEN [stats |-> r, result |-> FALSE]
       ELSE [stats |-> [r EXCEPT !.dailyRequests = @ + 1, !.monthlyRequests = @ + 1],
             result |-> TRUE]

\* the usage record after the call, and the value returned
canMakeOpenAIRequest(u, n) ==
    LET r == resetUsageCounters(u, n)
    IN IF r.lifetimeSpend >= LIFETIME_SPEND_LIMIT
         THEN [stats |-> [r EXCEPT !.openaiDisabled = TRUE], result |-> FALSE]
       ELSE IF r.dailyRequests >= DAILY_REQUESTS
         THEN [stats |-> r, result |-> FALSE]
       ELSE IF r.monthlyRequests >= MONTHLY_REQUESTS
         THEN [stats |-> r, result |-> FALSE]
       ELSE IF r.totalCost + estimatedRequestCost >= MAX_MONTHLY_COST
         THEN [stats |-> r, result |-> FALSE]
       ELSE [stats |-> r, result |-> TRUE]

\* faulty variant: the cost is added to the monthly estimate only
\* faulty variant: the latch is left to the next canMakeOpenAIRequest
updateUsageStats_noLatch(u, tokensUsed) ==
    LET cost == (tokensUsed * COST_PER_1K_TOKENS) \div 1000
    IN [u EXCEPT !.dailyRequests = @ + 1,
                 !.monthlyRequests = @ + 1,
                 !.totalCost = @ + cost,
                 !.lifetimeSpend = @ + cost]

updateUsageStats_noLifetime(u, tokensUsed) ==
    LET cost == (tokensUsed * COST_PER_1K_TOKENS) \div 1000
    IN [u EXCEPT !.dailyRequests = @ + 1,
                 !.monthlyRequests = @ + 1,
                 !.totalCost = @ + cost]

\* (tokensUsed / 1000) * COST_PER_1K_TOKENS, exact in micro-dollars
updateUsageStats(u, tokensUsed) ==
    LET cost == (tokensUsed * COST_PER_1K_TOKENS) \div 1000
        v == [u EXCEPT !.dailyRequests = @ + 1,
                       !.monthlyRequests = @ + 1,
                       !.totalCost = @ + cost,
                       !.lifetimeSpend = @ + cost]
    IN IF v.lifetimeSpend >= LIFETIME_SPEND_LIMIT
         THEN [v EXCEPT !.openaiDisabled = TRUE]
         ELSE v

(***************************************************************************)
(* Text.  A message is a sequence of characters.                           *)
(***************************************************************************)
UpperCase == <<"A", "B", "C", "D", "E", "F", "G", "H", "I", "J", "K", "L", "M",
               "N", "O", "P", "Q", "R", "S", "T", "U", "V", "W", "X", "Y", "Z">>
LowerCase == <<"a", "b", "c", "d", "e", "f", "g", "h", "i", "j", "k", "l", "m",
               "n", "o", "p", "q", "r", "s", "t", "u", "v", "w", "x", "y", "z">>

\* String.prototype.toLowerCase
toLowerCase(s) ==
    [k \in 1..Len(s) |->
        IF \E j \in 1..26 : UpperCase[j] = s[k]
          THEN LowerCase[CHOOSE j \in 1..26 : UpperCase[j] = s[k]]
          ELSE s[k]]

\* String.prototype.includes
includes(s, sub) ==
    \E k \in 1..(Len(s) - Len(sub) + 1) : SubSeq(s, k, k + Len(sub) - 1) = sub

\* body("message").trim(): whitespace removed at both ends
RECURSIVE trimLeft(_)
trimLeft(s) == IF s # <<>> /\ Head(s) = " " THEN trimLeft(Tail(s)) ELSE s
RECURSIVE trimRight(_)
trimRight(s) ==
    IF s # <<>> /\ s[Len(s)] = " " THEN trimRight(SubSeq(s, 1, Len(s) - 1)) ELSE s
trim(s) == trimRight(trimLeft(s))

\* body("message").escape(): the apostrophe becomes the entity &#x27;
RECURSIVE escape(_)
escape(s) ==
    IF s = <<>> THEN <<>>
    ELSE (IF Head(s) = "'" THEN <<"&", "#", "x", "2", "7", ";">> ELSE <<Head(s)>>)
         \o escape(Tail(s))

\* faulty variant: the length is checked before the message is trimmed
isValid_noTrim(m) ==
    LET t == IF m.present THEN m.text ELSE <<>>
    IN Len(t) >= 1 /\ Len(t) <= MaxMessageLength

\* the validation chain of POST /api/chat: a missing message is validated as
\* "", an array element by element
isValid(m) ==
    LET t == IF m.present THEN trim(m.text) ELSE <<>>
    IN Len(t) >= 1 /\ Len(t) <= MaxMessageLength

\* faulty variant: the message is compared as it was typed
lowerMessage_caseSensitive(m) == escape(trim(m.text))

\* req.body.message after the sanitizers, lower-cased
lowerMessage(m) == toLowerCase(escape(trim(m.text)))

\* the trigger phrases of the fallback branch
needsOpenAI(lower) ==
    \/ includes(lower, <<"m", "o", "r", "e", " ", "d", "e", "t", "a", "i", "l">>)
    \/ includes(lower, <<"e", "x", "p", "l", "a", "i", "n", " ", "m", "o", "r", "e">>)
    \/ includes(lower, <<"t", "e", "l", "l", " ", "m", "e", " ", "m", "o", "r", "e">>)
    \/ includes(lower, <<"e", "l", "a", "b", "o", "r", "a", "t", "e">>)
    \/ includes(lower, <<"s", "p", "e", "c", "i", "f", "i", "c">>)
    \/ includes(lower, <<"d", "e", "t", "a", "i", "l", "e", "d">>)
    \/ includes(lower, <<"i", "n", " ", "d", "e", "p", "t", "h">>)
    \/ includes(lower, <<"t", "h", "o", "r", "o", "u", "g", "h">>)
    \/ includes(lower, <<"c", "o", "m", "p", "r", "e", "h", "e", "n", "s", "i", "v", "e">>)

\* the negative acknowledgements that get the clarification prompt
isNegativeAck(lower) ==
    \/ includes(lower, <<"n", "o">>)
    \/ includes(lower, <<"n", "o", "t", " ", "r", "e", "a", "l", "l", "y">>)
    \/ includes(lower, <<"d", "i", "d", "n", "'", "t", " ", "a", "n", "s", "w", "e", "r">>)
    \/ includes(lower, <<"d", "i", "d", "n", "t", " ", "a", "n", "s", "w", "e", "r">>)
    \/ includes(lower, <<"t", "h", "a", "t", " ", "d", "i", "d", "n", "'", "t", " ", "h", "e", "l", "p">>)
    \/ includes(lower, <<"t", "h", "a", "t", " ", "d", "i", "d", "n", "t", " ", "h", "e", "l", "p">>)

\* faulty variant: the contact keywords are tested first
fallbackCategory_contactFirst(lower) ==
    IF includes(lower, <<"c", "o", "n", "t", "a", "c", "t">>)
       \/ includes(lower, <<"e", "m", "a", "i", "l">>)
       \/ includes(lower, <<"r", "e", "a", "c", "h">>)
      THEN "contact"
    ELSE IF includes(lower, <<"e", "x", "p", "e", "r", "i", "e", "n", "c", "e">>)
       \/ includes(lower, <<"w", "o", "r", "k">>)
      THEN "experience"
    ELSE IF includes(lower, <<"s", "k", "i", "l", "l", "s">>)
       \/ includes(lower, <<"t", "e", "c", "h", "n", "o", "l", "o", "g", "i", "e", "s">>)
      THEN "skills"
    ELSE IF includes(lower, <<"p", "r", "o", "j", "e", "c", "t", "s">>)
       \/ includes(lower, <<"p", "o", "r", "t", "f", "o", "l", "i", "o">>)
      THEN "projects"
    ELSE "default"

\* which entry of FALLBACK_RESPONSES answers the message
fallbackCategory(lower) ==
    IF includes(lower, <<"e", "x", "p", "e", "r", "i", "e", "n", "c", "e">>)
       \/ includes(lower, <<"w", "o", "r", "k">>)
      THEN "experience"
    ELSE IF includes(lower, <<"s", "k", "i", "l", "l", "s">>)
       \/ includes(lower, <<"t", "e", "c", "h", "n", "o", "l", "o", "g", "i", "e", "s">>)
      THEN "skills"
    ELSE IF includes(lower, <<"p", "r", "o", "j", "e", "c", "t", "s">>)
       \/ includes(lower, <<"p", "o", "r", "t", "f", "o", "l", "i", "o">>)
      THEN "projects"
    ELSE IF includes(lower, <<"c", "o", "n", "t", "a", "c", "t">>)
       \/ includes(lower, <<"e", "m", "a", "i", "l">>)
       \/ includes(lower, <<"r", "e", "a", "c", "h">>)
      THEN "contact"
    ELSE "default"

\* the request bodies the model sends: no message, "", "  ", "Hello",
\* "Elaborate on skills", "No, be specific", "No", ["Hello"]; text is the
\* message, or the element of a message that is an array of one string
Inputs ==
    << [present |-> FALSE, array |-> FALSE, text |-> <<>>],
       [present |-> TRUE, array |-> FALSE, text |-> <<>>],
       [present |-> TRUE, array |-> FALSE, text |-> <<" ", " ">>],
       [present |-> TRUE, array |-> FALSE, text |-> <<"H", "e", "l", "l", "o">>],
       [present |-> TRUE, array |-> FALSE, text |-> <<"E", "l", "a", "b", "o", "r", "a", "t", "e", " ",
                                     "o", "n", " ", "s", "k", "i", "l", "l", "s">>],
       [present |-> TRUE, array |-> FALSE, text |-> <<"N", "o", ",", " ", "b", "e", " ", "s", "p", "e",
                                     "c", "i", "f", "i", "c">>],
       [present |-> TRUE, array |-> FALSE, text |-> <<"N", "o">>],
       [present |-> TRUE, array |-> TRUE, text |-> <<"H", "e", "l", "l", "o">>] >>
InputIds == 1..Len(Inputs)

\* the keywords of the category selection, in the order the handler tests them
KeywordList ==
    << <<"e", "x", "p", "e", "r", "i", "e", "n", "c", "e">>,
       <<"w", "o", "r", "k">>,
       <<"s", "k", "i", "l", "l", "s">>,
       <<"t", "e", "c", "h", "n", "o", "l", "o", "g", "i", "e", "s">>,
       <<"p", "r", "o", "j", "e", "c", "t", "s">>,
       <<"p", "o", "r", "t", "f", "o", "l", "i", "o">>,
       <<"c", "o", "n", "t", "a", "c", "t">>,
       <<"e", "m", "a", "i", "l">>,
       <<"r", "e", "a", "c", "h">> >>
\* the words questions are made of: the keywords, "worked", "hello"
Words ==
    KeywordList \o
    << <<"w", "o", "r", "k", "e", "d">>,
       <<"h", "e", "l", "l", "o">> >>
\* the questions of one word and of two words separated by a space
WordQuestions ==
    [n \in 1..(Len(Words) + Len(Words) * Len(Words)) |->
        IF n <= Len(Words)
          THEN [present |-> TRUE, array |-> FALSE, text |-> Words[n]]
          ELSE [present |-> TRUE, array |-> FALSE,
                text |-> Words[((n - Len(Words) - 1) \div Len(Words)) + 1]
                         \o <<" ">> \o
                         Words[((n - Len(Words) - 1) % Len(Words)) + 1]]]
\* every request body of the model: Inputs, then the word questions
Questions == Inputs \o WordQuestions
QuestionIds == 1..Len(Questions)

\* what the handler reads off each request body
Feature ==
    [i \in QuestionIds |->
        LET lower == lowerMessage(Questions[i])
        IN [valid |-> isValid(Questions[i]),
            string |-> ~Questions[i].array,
            needsOpenAI |-> needsOpenAI(lower),
            negativeAck |-> isNegativeAck(lower),
            category |-> fallbackCategory(lower)]]

(***************************************************************************)
(* State.  Handlers are interchangeable, so they are counted, not named:   *)
(* at most one handler is inside its synchronous part (running); the       *)
(* others are suspended at `await axios.post` (awaiting).                  *)
(***************************************************************************)
VARIABLES
    usageStats,      \* the process-wide usage record
    now,             \* the date new Date() returns
    OPENAI_API_KEY,  \* whether process.env.OPENAI_API_KEY is set
    running,         \* the handler inside its synchronous part: position and request body
    awaiting,        \* how many handlers wait for the upstream, by request body and call site
    canResult,       \* what canMakeOpenAIRequest returned in the last step, if called
    started,         \* whether the last step issued the HTTP request to the upstream
    recorded,        \* the tokens updateUsageStats was called with in the last step
    upstream,        \* what the upstream answered in the last step, if it did
    res              \* the HTTP response sent in the last step

vars == <<usageStats, now, OPENAI_API_KEY, running, awaiting,
          canResult, started, recorded, upstream, res>>

\* positions inside the synchronous part of a handler
SyncPcs == {"detailCheck", "callDefault", "callDetailed"}
\* the two places callOpenAI is called from
Sites == {"default", "detailed"}
\* only a valid request body reaches callOpenAI
AwaitKinds == {i \in InputIds : Feature[i].valid /\ Feature[i].string} \X Sites

Idle == [pc |-> "idle", input |-> 0]

RECURSIVE SumOver(_, _)
SumOver(f, S) ==
    IF S = {} THEN 0
    ELSE LET k == CHOOSE x \in S : TRUE IN f[k] + SumOver(f, S \ {k})

\* handlers waiting for the upstream
Suspended == SumOver(awaiting, AwaitKinds)
\* chat requests being handled
InFlight == Suspended + (IF running.pc = "idle" THEN 0 ELSE 1)

\* recorded when updateUsageStats was not called
NoTokens == 0 - 1
\* upstream when no upstream answer arrived
NoUpstream == [kind |-> "none", tokens |-> NoTokens, choices |-> <<>>]
NoResponse ==
    [input |-> 0, status |-> 0, success |-> FALSE,
     base |-> "", suffix |-> "", note |-> ""]

\* res.status(status).json({success, response: base + suffix, note})
json(i, status, success, base, suffix, note) ==
    [input |-> i, status |-> status, success |-> success,
     base |-> base, suffix |-> suffix, note |-> note]

boolText(b) == IF b THEN "true" ELSE "false"

Init ==
    /\ now = 0
    /\ usageStats = [dailyRequests |-> 0, monthlyRequests |-> 0, totalCost |-> 0,
                     lifetimeSpend |-> 0, lastReset |-> 0, openaiDisabled |-> FALSE]
    /\ OPENAI_API_KEY \in BOOLEAN
    /\ running = Idle
    /\ awaiting = [k \in AwaitKinds |-> 0]
    /\ canResult = "none"
    /\ started = FALSE
    /\ recorded = NoTokens
    /\ upstream = NoUpstream
    /\ res = NoResponse

\* the running handler sends its response and ends
Respond(response) ==
    /\ res' = response
    /\ running' = Idle

\* the running handler goes on to position p
Goto(i, p) ==
    /\ res' = NoResponse
    /\ running' = [pc |-> p, input |-> i]

(***************************************************************************)
(* The clock advances, by any number of days.                              *)
(***************************************************************************)
Tick ==
    /\ \E t \in Dates : t > now /\ now' = t
    /\ canResult' = "none"
    /\ started' = FALSE
    /\ recorded' = NoTokens
    /\ upstream' = NoUpstream
    /\ res' = NoResponse
    /\ UNCHANGED <<usageStats, OPENAI_API_KEY, running, awaiting>>

(***************************************************************************)
(* POST /api/chat.                                                         *)
(***************************************************************************)
\* the catch of the handler (lines 988-999): an exception that is not raised
\* by callOpenAI is answered as a server error
errorResponse(i) ==
    json(i, 500, FALSE, "Internal server error", "", "")

\* GET /health: the body reports the usage record (timestamp, uptime,
\* environment and version are left out)
healthBody(u) ==
    [status |-> "healthy",
     services |->
        [openai |-> IF OPENAI_API_KEY THEN "configured" ELSE "not configured",
         railway |-> "operational",
         usage |-> [daily |-> u.dailyRequests,
                    monthly |-> u.monthlyRequests,
                    lifetimeSpend |-> u.lifetimeSpend,
                    openaiDisabled |-> u.openaiDisabled]]]

\* the static path (lines 917-921): the canned answer and the invitation to ask for more
staticResponse(i) ==
    json(i, 200, TRUE, Feature[i].category, "followUp",
         "Using fallback response (default mode)")

\* the clarification prompt (lines 939-941)
clarificationResponse(i) ==
    json(i, 200, TRUE, "clarification", "",
         "Asking for clarification before using OpenAI")

\* faulty variant: a denial at a ceiling gets the text of the unconfigured case
\* (as in the first variant, lines 293-297)
deniedResponse_conservingText(i, disabled) ==
    IF disabled
      THEN json(i, 200, TRUE, Feature[i].category, "lifetimeLimit",
                "Using fallback response (lifetime spend limit reached)")
    ELSE json(i, 200, TRUE, Feature[i].category, "conserving",
              IF OPENAI_API_KEY
                THEN "Using fallback response (usage limit reached)"
                ELSE "Using fallback response (OpenAI not configured)")

\* faulty variant: the latch is not told apart from the other denials
deniedResponse_noLifetimeBranch(i, disabled) ==
    IF ~OPENAI_API_KEY
      THEN json(i, 200, TRUE, Feature[i].category, "conserving",
                "Using fallback response (OpenAI not configured)")
    ELSE json(i, 200, TRUE, Feature[i].category, "usageLimit",
              "Using fallback response (usage limit reached)")

\* the triggered path without an upstream call (lines 963-978); disabled is
\* usageStats.openaiDisabled when the branch is taken
deniedResponse(i, disabled) ==
    IF disabled
      THEN json(i, 200, TRUE, Feature[i].category, "lifetimeLimit",
                "Using fallback response (lifetime spend limit reached)")
    ELSE IF ~OPENAI_API_KEY
      THEN json(i, 200, TRUE, Feature[i].category, "conserving",
                "Using fallback response (OpenAI not configured)")
    ELSE json(i, 200, TRUE, Feature[i].category, "usageLimit",
              "Using fallback response (usage limit reached)")

\* faulty variant: response += openaiResponse, on top of the canned answer
successResponse_appends(i, site, content) ==
    json(i, 200, TRUE, Feature[i].category, content,
         IF site = "default"
           THEN "Using OpenAI GPT-3.5-turbo (default mode)"
           ELSE "Using OpenAI GPT-3.5-turbo (detailed response)")

\* the response after callOpenAI returned its text: response = openaiResponse
successResponse(i, site, content) ==
    json(i, 200, TRUE, content, "",
         IF site = "default"
           THEN "Using OpenAI GPT-3.5-turbo (default mode)"
           ELSE "Using OpenAI GPT-3.5-turbo (detailed response)")

\* faulty variant: an upstream failure is passed on to the caller
openaiErrorResponse_serverError(i, usageLimit) ==
    IF usageLimit
      THEN json(i, 200, TRUE, Feature[i].category, "usageLimit",
                "Using fallback response (usage limit reached)")
      ELSE json(i, 500, FALSE, "Internal server error", "", "")

\* the response after callOpenAI threw: "Usage limit reached", or anything else
openaiErrorResponse(i, usageLimit) ==
    IF usageLimit
      THEN json(i, 200, TRUE, Feature[i].category, "usageLimit",
                "Using fallback response (usage limit reached)")
      ELSE json(i, 200, TRUE, Feature[i].category, "trouble",
                "Using fallback response (OpenAI failed)")

\* the else branch of the handler up to its call of canMakeOpenAIRequest;
\* u is the usage record at that point
FallbackBranch(i, u) ==
    IF ~Feature[i].needsOpenAI
      THEN Respond(staticResponse(i))
    ELSE IF OPENAI_API_KEY
      THEN Goto(i, "detailCheck")
    ELSE Respond(deniedResponse(i, u.openaiDisabled))

\* a request arrives: validation, message.toLowerCase() (which throws when
\* the message is not a string), useFallbackMode, the guard of the default mode
ChatReceive(i) ==
    /\ running = Idle
    /\ InFlight < MaxRequests
    /\ started' = FALSE
    /\ recorded' = NoTokens
    /\ upstream' = NoUpstream
    /\ UNCHANGED <<now, OPENAI_API_KEY, awaiting>>
    /\ IF ~Feature[i].valid
         THEN /\ res' = json(i, 400, FALSE, "Invalid input", "", "")
              /\ canResult' = "none"
              /\ UNCHANGED <<usageStats, running>>
         ELSE IF ~Feature[i].string
         THEN /\ res' = errorResponse(i)
              /\ canResult' = "none"
              /\ UNCHANGED <<usageStats, running>>
         ELSE LET useFallbackMode ==
                      \/ usageStats.lifetimeSpend >= LIFETIME_SPEND_LIMIT
                      \/ usageStats.openaiDisabled
                  asks == ~useFallbackMode /\ OPENAI_API_KEY
                  c == canMakeOpenAIRequest(usageStats, now)
                  u == IF asks THEN c.stats ELSE usageStats
              IN /\ usageStats' = u
                 /\ canResult' = IF asks THEN boolText(c.result) ELSE "none"
                 /\ IF asks /\ c.result
                      THEN Goto(i, "callDefault")
                      ELSE FallbackBranch(i, u)

\* faulty variant: the triggered path does not ask the governor again
DetailCheck_ignoresGovernor ==
    /\ running.pc = "detailCheck"
    /\ started' = FALSE
    /\ recorded' = NoTokens
    /\ upstream' = NoUpstream
    /\ canResult' = "none"
    /\ UNCHANGED <<now, OPENAI_API_KEY, awaiting, usageStats>>
    /\ LET i == running.input
       IN IF ~usageStats.openaiDisabled
            THEN IF Feature[i].negativeAck
                   THEN Respond(clarificationResponse(i))
                   ELSE Goto(i, "callDetailed")
            ELSE Respond(deniedResponse(i, usageStats.openaiDisabled))

\* the triggered path: OPENAI_API_KEY && canMakeOpenAIRequest() && !openaiDisabled
DetailCheck ==
    /\ running.pc = "detailCheck"
    /\ started' = FALSE
    /\ recorded' = NoTokens
    /\ upstream' = NoUpstream
    /\ UNCHANGED <<now, OPENAI_API_KEY, awaiting>>
    /\ LET i == running.input
           c == canMakeOpenAIRequest(usageStats, now)
       IN /\ usageStats' = c.stats
          /\ canResult' = boolText(c.result)
          /\ IF c.result /\ ~c.stats.openaiDisabled
               THEN IF Feature[i].negativeAck
                      THEN Respond(clarificationResponse(i))
                      ELSE Goto(i, "callDetailed")
               ELSE Respond(deniedResponse(i, c.stats.openaiDisabled))

\* callOpenAI up to its await: the key, the permission check, the HTTP request
CallOpenAI ==
    /\ running.pc \in {"callDefault", "callDetailed"}
    /\ recorded' = NoTokens
    /\ upstream' = NoUpstream
    /\ UNCHANGED <<now, OPENAI_API_KEY>>
    /\ LET i == running.input
           site == IF running.pc = "callDefault" THEN "default" ELSE "detailed"
           c == canMakeOpenAIRequest(usageStats, now)
       IN IF ~OPENAI_API_KEY
            THEN /\ canResult' = "none"
                 /\ started' = FALSE
                 /\ UNCHANGED <<usageStats, awaiting>>
                 /\ Respond(openaiErrorResponse(i, FALSE))
            ELSE /\ usageStats' = c.stats
                 /\ canResult' = boolText(c.result)
                 /\ started' = c.result
                 /\ IF c.result
                      THEN /\ awaiting' = [awaiting EXCEPT ![<<i, site>>] = @ + 1]
                           /\ running' = Idle
                           /\ res' = NoResponse
                      ELSE /\ UNCHANGED awaiting
                           /\ Respond(openaiErrorResponse(i, TRUE))

\* callOpenAI after its await when the upstream answers 2xx with a payload
\* that has usage.total_tokens: the usage is recorded (lines 732-733), then
\* choices[0].message.content is read (line 735), which throws when the
\* choices array is empty
UpstreamPayload(k, tokens, choices) ==
    /\ running = Idle
    /\ awaiting[k] > 0
    /\ awaiting' = [awaiting EXCEPT ![k] = @ - 1]
    /\ canResult' = "none"
    /\ started' = FALSE
    /\ UNCHANGED <<now, OPENAI_API_KEY, running>>
    /\ usageStats' = updateUsageStats(usageStats, tokens)
    /\ recorded' = tokens
    /\ upstream' = [kind |-> "payload", tokens |-> tokens, choices |-> choices]
    /\ res' = IF choices # <<>>
                THEN successResponse(k[1], k[2], choices[1])
                ELSE openaiErrorResponse(k[1], FALSE)

\* faulty variant: the handler calls the upstream again after a failure
UpstreamFailure_retries(k, kind) ==
    /\ running = Idle
    /\ awaiting[k] > 0
    /\ awaiting' = [awaiting EXCEPT ![k] = @ - 1]
    /\ canResult' = "none"
    /\ started' = FALSE
    /\ recorded' = NoTokens
    /\ upstream' = [kind |-> kind, tokens |-> NoTokens, choices |-> <<>>]
    /\ UNCHANGED <<now, OPENAI_API_KEY, usageStats>>
    /\ Goto(k[1], IF k[2] = "default" THEN "callDefault" ELSE "callDetailed")

\* callOpenAI after its await when axios.post rejects (no response, or a
\* status outside 2xx) or the 2xx payload has no usage object, so that line
\* 732 throws: nothing is recorded
UpstreamFailure(k, kind) ==
    /\ running = Idle
    /\ awaiting[k] > 0
    /\ awaiting' = [awaiting EXCEPT ![k] = @ - 1]
    /\ canResult' = "none"
    /\ started' = FALSE
    /\ recorded' = NoTokens
    /\ upstream' = [kind |-> kind, tokens |-> NoTokens, choices |-> <<>>]
    /\ UNCHANGED <<now, OPENAI_API_KEY, running, usageStats>>
    /\ res' = openaiErrorResponse(k[1], FALSE)

\* faulty variant: the status endpoint counts itself as a request
Health_countsRequest ==
    /\ running = Idle
    /\ res' = [input |-> 0, status |-> 200, body |-> healthBody(usageStats)]
    /\ canResult' = "none"
    /\ started' = FALSE
    /\ recorded' = NoTokens
    /\ upstream' = NoUpstream
    /\ usageStats' = [usageStats EXCEPT !.dailyRequests = @ + 1,
                                        !.monthlyRequests = @ + 1]
    /\ UNCHANGED <<now, OPENAI_API_KEY, running, awaiting>>

\* GET /health is handled in one synchronous run, between the runs of the
\* chat handlers
Health ==
    /\ running = Idle
    /\ res' = [input |-> 0, status |-> 200, body |-> healthBody(usageStats)]
    /\ canResult' = "none"
    /\ started' = FALSE
    /\ recorded' = NoTokens
    /\ upstream' = NoUpstream
    /\ UNCHANGED <<usageStats, now, OPENAI_API_KEY, running, awaiting>>

Next ==
    \/ \E i \in InputIds : ChatReceive(i)
    \/ DetailCheck
    \/ CallOpenAI
    \/ \E k \in AwaitKinds : \E t \in TokenChoices : \E c \in ChoicesDomain : UpstreamPayload(k, t, c)
    \/ \E k \in AwaitKinds : \E f \in FailureKinds : UpstreamFailure(k, f)
    \/ Health
    \/ Tick

Spec == Init /\ [][Next]_vars

\* requests handled strictly one at a time
ChatReceiveAlone(i) ==
    /\ InFlight = 0
    /\ ChatReceive(i)

NextSequential ==
    \/ \E i \in InputIds : ChatReceiveAlone(i)
    \/ DetailCheck
    \/ CallOpenAI
    \/ \E k \in AwaitKinds : \E t \in TokenChoices : \E c \in ChoicesDomain : UpstreamPayload(k, t, c)
    \/ \E k \in AwaitKinds : \E f \in FailureKinds : UpstreamFailure(k, f)
    \/ Tick

SpecSequential == Init /\ [][NextSequential]_vars

\* a process started without OPENAI_API_KEY, asked every question of the table
InitStatic ==
    /\ Init
    /\ ~OPENAI_API_KEY

NextStatic ==
    \/ \E i \in QuestionIds : ChatReceive(i)
    \/ Tick

SpecStatic == InitStatic /\ [][NextStatic]_vars

(***************************************************************************)
(* Properties of the usage governor.                                       *)
(***************************************************************************)
\* the calendar month a date lies in, counted from the start
monthIndex(t) == t \div DaysPerMonth

\* C1: once lifetimeSpend has reached LIFETIME_SPEND_LIMIT, every call of
\* canMakeOpenAIRequest returns false, whatever the daily and monthly counters
\* are and however many resets and requests came before.
C1_LifetimeLimitDenies ==
    (usageStats.lifetimeSpend >= LIFETIME_SPEND_LIMIT /\ canResult # "none")
        => canResult = "false"

\* a call denied after the limit was reached although a new month had zeroed
\* the daily and monthly counters
C1_Witness ==
    /\ usageStats.lifetimeSpend >= LIFETIME_SPEND_LIMIT
    /\ canResult = "false"
    /\ usageStats.dailyRequests = 0
    /\ usageStats.monthlyRequests = 0
    /\ usageStats.totalCost = 0

\* C2: the latch openaiDisabled is one-way: no step sets it back to false.
C2_LatchOneWay ==
    [][usageStats.openaiDisabled => usageStats'.openaiDisabled]_vars

\* the latch is still set after a monthly reset ran
C2_Witness ==
    /\ usageStats.openaiDisabled
    /\ canResult # "none"
    /\ usageStats.monthlyRequests = 0
    /\ usageStats.lastReset > 0

\* C3: lifetimeSpend never decreases, in particular not at the daily and
\* monthly resets.
C3_LifetimeMonotonic ==
    [][usageStats'.lifetimeSpend >= usageStats.lifetimeSpend]_vars

\* a monthly reset ran and the lifetime estimate was kept
C3_Witness ==
    /\ usageStats.lifetimeSpend > 0
    /\ usageStats.totalCost = 0
    /\ usageStats.monthlyRequests = 0
    /\ canResult # "none"

\* C4: when callOpenAI issues the HTTP request, lifetimeSpend, dailyRequests and
\* monthlyRequests are all below their ceilings.
C4_CallOnlyWhenPermitted ==
    started =>
        /\ usageStats.lifetimeSpend < LIFETIME_SPEND_LIMIT
        /\ usageStats.dailyRequests < DAILY_REQUESTS
        /\ usageStats.monthlyRequests < MONTHLY_REQUESTS

\* a call issued with one request left before the daily ceiling while another
\* handler is already waiting for the upstream
C4_Witness ==
    /\ started
    /\ usageStats.dailyRequests = DAILY_REQUESTS - 1
    /\ Suspended >= 2

\* C5: the permission check counts nothing: the step in which callOpenAI passes
\* the check and issues the request leaves dailyRequests and monthlyRequests
\* without an increment, so handlers that pass it before any of them records
\* can together take the counters above the ceilings.
C5_CheckReservesNothing ==
    [][started' =>
          /\ usageStats'.dailyRequests <= usageStats.dailyRequests
          /\ usageStats'.monthlyRequests <= usageStats.monthlyRequests]_vars

\* dailyRequests strictly above its ceiling
C5_Witness ==
    usageStats.dailyRequests > DAILY_REQUESTS

\* C6: with requests handled one at a time, dailyRequests and monthlyRequests
\* never exceed their ceilings.
C6_SequentialWithinCeilings ==
    /\ usageStats.dailyRequests <= DAILY_REQUESTS
    /\ usageStats.monthlyRequests <= MONTHLY_REQUESTS

\* the monthly ceiling reached exactly, and a request denied
C6_Witness ==
    /\ usageStats.monthlyRequests = MONTHLY_REQUESTS
    /\ usageStats.lifetimeSpend < LIFETIME_SPEND_LIMIT
    /\ canResult = "false"

\* C7: one call of updateUsageStats(tokensUsed) adds 1 to dailyRequests and to
\* monthlyRequests, and tokensUsed / 1000 * COST_PER_1K_TOKENS to totalCost and
\* to lifetimeSpend.
C7_UpdateAddsExactly ==
    [][recorded' # NoTokens =>
          /\ usageStats'.dailyRequests = usageStats.dailyRequests + 1
          /\ usageStats'.monthlyRequests = usageStats.monthlyRequests + 1
          /\ 1000 * (usageStats'.totalCost - usageStats.totalCost)
                = recorded' * COST_PER_1K_TOKENS
          /\ 1000 * (usageStats'.lifetimeSpend - usageStats.lifetimeSpend)
                = recorded' * COST_PER_1K_TOKENS]_vars

\* a reply with a positive token count was recorded on top of earlier spending
C7_Witness ==
    /\ recorded = MaxTokens
    /\ usageStats.lifetimeSpend > usageStats.totalCost

\* C8: resetUsageCounters zeroes dailyRequests whenever it runs on a calendar
\* day later than the day of lastReset.
C8_DailyResetOnLaterDay ==
    [][(canResult' # "none" /\ now > usageStats.lastReset)
          => usageStats'.dailyRequests = 0]_vars

\* C9: resetUsageCounters zeroes monthlyRequests and totalCost whenever it runs
\* in a calendar month later than the month of lastReset, and leaves both
\* untouched when the month has not changed.
C9_MonthlyResetOnLaterMonth ==
    [][canResult' # "none" =>
          IF monthIndex(now) > monthIndex(usageStats.lastReset)
            THEN /\ usageStats'.monthlyRequests = 0
                 /\ usageStats'.totalCost = 0
            ELSE /\ usageStats'.monthlyRequests = usageStats.monthlyRequests
                 /\ usageStats'.totalCost = usageStats.totalCost]_vars

\* C10: with lifetimeSpend below its limit, canMakeOpenAIRequest returns false
\* exactly when, after the reset, dailyRequests or monthlyRequests is at its
\* ceiling or totalCost + COST_PER_1K_TOKENS * 0.5 is at MAX_MONTHLY_COST.
C10_DecisionBelowLifetimeLimit ==
    (canResult # "none" /\ usageStats.lifetimeSpend < LIFETIME_SPEND_LIMIT) =>
        (canResult = "false" <=>
            \/ usageStats.dailyRequests >= DAILY_REQUESTS
            \/ usageStats.monthlyRequests >= MONTHLY_REQUESTS
            \/ 2 * usageStats.totalCost + COST_PER_1K_TOKENS >= 2 * MAX_MONTHLY_COST)

\* a denial at the monthly ceiling with the daily counter below its own
C10_Witness ==
    /\ canResult = "false"
    /\ usageStats.lifetimeSpend < LIFETIME_SPEND_LIMIT
    /\ usageStats.dailyRequests < DAILY_REQUESTS
    /\ usageStats.monthlyRequests >= MONTHLY_REQUESTS

(***************************************************************************)
(* Properties of the upstream call and of the chat handler.                *)
(***************************************************************************)
\* the notes of a reply that carries the upstream text
UpstreamNotes ==
    {"Using OpenAI GPT-3.5-turbo (default mode)",
     "Using OpenAI GPT-3.5-turbo (detailed response)"}

\* the notes that contain the word "fallback"
FallbackNotes ==
    {"Using fallback response (default mode)",
     "Using fallback response (usage limit reached)",
     "Using fallback response (OpenAI failed)",
     "Using fallback response (lifetime spend limit reached)",
     "Using fallback response (OpenAI not configured)"}

\* the last step answered a chat request
answered == res.input # 0

\* C11: usage is recorded, with the token count of the upstream reply, exactly
\* in the step that returns the upstream text to the caller; a request whose
\* upstream call is treated as failed records nothing.
C11_RecordedIffUpstreamText ==
    /\ recorded # NoTokens =>
          /\ recorded = upstream.tokens
          /\ res.note \in UpstreamNotes
          /\ upstream.choices # <<>>
          /\ res.base = Head(upstream.choices)
    /\ (answered /\ res.note \in UpstreamNotes) => recorded # NoTokens
    /\ (answered /\ res.note = "Using fallback response (OpenAI failed)")
          => recorded = NoTokens

\* C12: a valid question without a trigger phrase is answered with the canned
\* answer of its category and the invitation to ask for more, under the note of
\* the static path, and no handler of such a question calls the upstream, in
\* every state of the usage record and with or without a credential.
C12_NoTriggerAnsweredStatically ==
    /\ (answered /\ Feature[res.input].valid /\ ~Feature[res.input].needsOpenAI) =>
          /\ res.status = 200
          /\ res.base = Feature[res.input].category
          /\ res.suffix = "followUp"
          /\ res.note = "Using fallback response (default mode)"
    /\ \A k \in AwaitKinds : awaiting[k] > 0 => Feature[k[1]].needsOpenAI

\* the keywords of each category, and the order the categories are tried in
Keywords ==
    [experience |-> {KeywordList[1], KeywordList[2]},
     skills |-> {KeywordList[3], KeywordList[4]},
     projects |-> {KeywordList[5], KeywordList[6]},
     contact |-> {KeywordList[7], KeywordList[8], KeywordList[9]}]
CategoryOrder == <<"experience", "skills", "projects", "contact">>

\* the question of request body i, as the handler matches it
question(i) == lowerMessage(Questions[i])
\* whether question i contains a keyword of the n-th category
mentions(i, n) == \E w \in Keywords[CategoryOrder[n]] : includes(question(i), w)

\* C13: the canned answer is the one of the first category, in the order
\* experience, skills, projects, contact, of which the question contains a
\* keyword, whatever keywords of later categories it also contains; the default
\* answer is given when it contains none.
C13_FirstMatchingCategory ==
    (answered /\ res.status = 200) =>
        /\ \A n \in 1..Len(CategoryOrder) :
              (mentions(res.input, n) /\ \A m \in 1..(n - 1) : ~mentions(res.input, m))
                  => res.base = CategoryOrder[n]
        /\ (\A n \in 1..Len(CategoryOrder) : ~mentions(res.input, n))
                  => res.base = "default"

\* a question with "contact" and "experience" got the experience answer, or
\* one with "worked" and "projects" did
C13_Witness ==
    /\ answered
    /\ res.base = "experience"
    /\ \/ question(res.input) = KeywordList[7] \o <<" ">> \o KeywordList[1]
       \/ question(res.input) = Words[10] \o <<" ">> \o KeywordList[5]

\* C14: when the question contains a trigger phrase and the upstream answers a
\* permitted call with a completion, the reply is that completion and nothing
\* else, the note is one of the upstream notes, and the step records the usage
\* of that reply.
C14_UpstreamTextVerbatim ==
    (upstream.kind = "payload" /\ upstream.choices # <<>>
        /\ Feature[res.input].needsOpenAI) =>
        /\ res.status = 200
        /\ res.success
        /\ res.base = Head(upstream.choices)
        /\ res.suffix = ""
        /\ res.note \in UpstreamNotes
        /\ recorded = upstream.tokens

\* the upstream text returned for "Elaborate on skills", with its tokens recorded
C14_Witness ==
    /\ upstream.kind = "payload"
    /\ upstream.choices # <<>>
    /\ Feature[res.input].needsOpenAI
    /\ ~Feature[res.input].negativeAck
    /\ res.base \in Completions
    /\ recorded = MaxTokens
    /\ OPENAI_API_KEY

\* a message that is nothing but the negative acknowledgement "no"
isBareNo(i) == question(i) = <<"n", "o">>

\* C15: a bare "no" sent while the upstream is permitted (credential configured,
\* canMakeOpenAIRequest() true) gets the clarification prompt: no handler of
\* such a message calls the upstream and none records usage.
C15_BareNoGetsClarification ==
    /\ \A k \in AwaitKinds : awaiting[k] > 0 => ~isBareNo(k[1])
    /\ (answered /\ isBareNo(res.input)) => recorded = NoTokens
    /\ (answered /\ isBareNo(res.input) /\ canResult = "true")
          => res.note = "Asking for clarification before using OpenAI"

\* C16: a question with a trigger phrase that is denied by the usage governor at
\* the daily, monthly or monthly-cost ceiling, the latch not being set, is
\* answered 200 with the canned answer of its category and the usage-limit
\* explanation, under the usage-limit note; a denying check starts no upstream
\* call and nothing is recorded.
C16_DeniedAtCeiling ==
    /\ (answered /\ canResult = "false" /\ ~usageStats.openaiDisabled
          /\ Feature[res.input].needsOpenAI) =>
          /\ res.status = 200
          /\ res.success
          /\ res.base = Feature[res.input].category
          /\ res.suffix = "usageLimit"
          /\ res.note = "Using fallback response (usage limit reached)"
    /\ canResult = "false" => (~started /\ recorded = NoTokens)

\* the usage-limit reply to "Elaborate on skills" at the daily ceiling, and at
\* the monthly ceiling with the daily counter below its own
C16_Witness ==
    /\ answered
    /\ res.suffix = "usageLimit"
    /\ res.base = "skills"
    /\ canResult = "false"
    /\ ~usageStats.openaiDisabled
    /\ \/ usageStats.dailyRequests >= DAILY_REQUESTS
       \/ usageStats.monthlyRequests >= MONTHLY_REQUESTS

\* C17 as stated: a question with a trigger phrase that is denied because the
\* lifetime ceiling was reached is answered with the default canned answer and
\* the lifetime-limit explanation, under the lifetime-limit note.
C17_LifetimeDenialDefaultAnswer ==
    (answered /\ canResult = "false" /\ usageStats.openaiDisabled
        /\ Feature[res.input].needsOpenAI) =>
        /\ res.status = 200
        /\ res.base = "default"
        /\ res.suffix = "lifetimeLimit"
        /\ res.note = "Using fallback response (lifetime spend limit reached)"
        /\ ~started

\* C17 amended: the canned answer is the one of the question's category (the
\* default answer only when the question contains no category keyword).
C17_LifetimeDenialCategoryAnswer ==
    (answered /\ canResult = "false" /\ usageStats.openaiDisabled
        /\ Feature[res.input].needsOpenAI) =>
        /\ res.status = 200
        /\ res.success
        /\ res.base = Feature[res.input].category
        /\ res.suffix = "lifetimeLimit"
        /\ res.note = "Using fallback response (lifetime spend limit reached)"
        /\ ~started
        /\ recorded = NoTokens

\* the lifetime-limit reply to "Elaborate on skills" once lifetimeSpend has
\* reached the limit
C17_Witness ==
    /\ answered
    /\ res.suffix = "lifetimeLimit"
    /\ res.base = "skills"
    /\ canResult = "false"
    /\ usageStats.lifetimeSpend >= LIFETIME_SPEND_LIMIT

\* C18: when a permitted upstream call fails (no response, a status outside
\* 2xx, a payload without usage or without a completion), the reply is 200 with
\* success = true, the canned answer of the question's category with the
\* apology, under the note of the failed upstream: the same for every kind of
\* failure.
C18_UpstreamFailureFallsBack ==
    (upstream.kind \in FailureKinds
        \/ (upstream.kind = "payload" /\ upstream.choices = <<>>)) =>
        /\ res.status = 200
        /\ res.success
        /\ res.base = Feature[res.input].category
        /\ res.suffix = "trouble"
        /\ res.note = "Using fallback response (OpenAI failed)"

\* the fallback reply after the upstream answered with a status outside 2xx
C18_Witness ==
    /\ upstream.kind = "status"
    /\ res.status = 200
    /\ res.suffix = "trouble"
    /\ res.base = "skills"

\* C19: without a credential every valid chat request is answered 200 with
\* success = true and a note that names a fallback answer; no upstream call is
\* started or pending and the counters of the usage record are not incremented.
C19_NoCredentialFallsBack ==
    [][(~OPENAI_API_KEY /\ res'.input # 0 /\ Feature[res'.input].valid) =>
          /\ res'.status = 200
          /\ res'.success
          /\ res'.note \in FallbackNotes
          /\ ~started'
          /\ Suspended' = 0
          /\ recorded' = NoTokens
          /\ usageStats'.dailyRequests = usageStats.dailyRequests
          /\ usageStats'.monthlyRequests = usageStats.monthlyRequests
          /\ usageStats'.totalCost = usageStats.totalCost
          /\ usageStats'.lifetimeSpend = usageStats.lifetimeSpend]_vars

\* a request body whose message is missing, empty, or only white space
isBlank(i) ==
    \/ ~Questions[i].present
    \/ \A n \in 1..Len(Questions[i].text) : Questions[i].text[n] = " "

\* the blank request bodies of the table
BlankIds == {i \in QuestionIds : isBlank(i)}

\* C20: a chat request whose message is missing, empty, or empty after trimming
\* is answered 400 in a step that calls neither canMakeOpenAIRequest nor
\* updateUsageStats, starts no upstream call and leaves the usage record as it
\* was; no handler of such a request waits for the upstream.
C20_BlankRejected ==
    [][/\ res'.input \in BlankIds =>
             /\ res'.status = 400
             /\ ~res'.success
             /\ canResult' = "none"
             /\ ~started'
             /\ recorded' = NoTokens
             /\ usageStats' = usageStats
       /\ running'.input \notin BlankIds]_vars

\* a white-space message rejected by a process that has a credential and has
\* counted requests
C20_Witness ==
    /\ res.status = 400
    /\ res.input = 3
    /\ OPENAI_API_KEY
    /\ usageStats.dailyRequests > 0

(***************************************************************************)
(* Properties of the two endpoints.                                        *)
(***************************************************************************)
\* C21: every chat request that passes the validation chain is answered 200
\* with success = true and a note; a status other than 200 is sent only to a
\* request that fails validation.
C21_ValidRequestAnswered200 ==
    /\ (answered /\ Feature[res.input].valid) =>
          /\ res.status = 200
          /\ res.success
          /\ res.note # ""
    /\ (answered /\ res.status # 200) => ~Feature[res.input].valid

\* C22: a chat request makes at most one upstream call: the step in which the
\* upstream answers or fails sends the response of the request and ends its
\* handler without starting another call, and a handler that was denied by
\* canMakeOpenAIRequest inside callOpenAI responds without starting a call.
C22_OneUpstreamCall ==
    /\ upstream.kind # "none" =>
          /\ answered
          /\ running = Idle
          /\ ~started
    /\ started =>
          /\ running = Idle
          /\ ~answered
          /\ upstream.kind = "none"
          /\ Suspended >= 1
    /\ running.pc \in {"callDefault", "callDetailed"} =>
          (upstream.kind = "none" /\ ~started)

\* the upstream did not answer a request, which got its canned answer while
\* no other request was waiting
C22_Witness ==
    /\ upstream.kind = "network"
    /\ answered
    /\ res.note = "Using fallback response (OpenAI failed)"
    /\ Suspended = 0

\* the last step answered GET /health
healthAnswered == res.input = 0 /\ res.status = 200

\* C23: GET /health answers 200 with status "OK" and a usage object that has
\* dailyRequests, monthlyRequests, totalCost, lifetimeSpend, openaiDisabled
\* and limits, the first five equal to the usage record.
C23_HealthReportsUsage ==
    healthAnswered =>
        /\ res.body.status = "OK"
        /\ "usage" \in DOMAIN res.body
        /\ {"dailyRequests", "monthlyRequests", "totalCost", "lifetimeSpend",
            "openaiDisabled", "limits"} \subseteq DOMAIN res.body.usage
        /\ res.body.usage.dailyRequests = usageStats.dailyRequests
        /\ res.body.usage.monthlyRequests = usageStats.monthlyRequests
        /\ res.body.usage.totalCost = usageStats.totalCost
        /\ res.body.usage.lifetimeSpend = usageStats.lifetimeSpend
        /\ res.body.usage.openaiDisabled = usageStats.openaiDisabled

\* the phrases of the first variant's list that the claim names, and "no"
BroadWords == {<<"a", "i">>, <<"s", "p", "e", "c", "i", "f", "i", "c">>, <<"n", "o">>}

\* the phrases tested by the fallback branch
TriggerPhrases ==
    {<<"m", "o", "r", "e", " ", "d", "e", "t", "a", "i", "l">>,
     <<"e", "x", "p", "l", "a", "i", "n", " ", "m", "o", "r", "e">>,
     <<"t", "e", "l", "l", " ", "m", "e", " ", "m", "o", "r", "e">>,
     <<"e", "l", "a", "b", "o", "r", "a", "t", "e">>,
     <<"s", "p", "e", "c", "i", "f", "i", "c">>,
     <<"d", "e", "t", "a", "i", "l", "e", "d">>,
     <<"i", "n", " ", "d", "e", "p", "t", "h">>,
     <<"t", "h", "o", "r", "o", "u", "g", "h">>,
     <<"c", "o", "m", "p", "r", "e", "h", "e", "n", "s", "i", "v", "e">>}

\* the question, in any letter case, contains one of the phrases
containsPhrase(i, phrases) ==
    \E p \in phrases : includes(toLowerCase(Questions[i].text), p)

\* the questions of the table that contain a phrase of each set
BroadIds == {i \in QuestionIds : containsPhrase(i, BroadWords)}
TriggerIds == {i \in QuestionIds : containsPhrase(i, TriggerPhrases)}

\* the last step sent the answer of the static path
staticPath ==
    /\ answered
    /\ res.status = 200
    /\ res.suffix = "followUp"
    /\ res.note = "Using fallback response (default mode)"

zeroedOrKept(u, v) ==
    /\ u.lifetimeSpend = v.lifetimeSpend
    /\ u.openaiDisabled = v.openaiDisabled
    /\ u.dailyRequests \in {v.dailyRequests, 0}
    /\ u.monthlyRequests \in {v.monthlyRequests, 0}
    /\ u.totalCost \in {v.totalCost, 0}

\* C25: only the governor writes the usage record: a step that does not call
\* updateUsageStats leaves lifetimeSpend as it was and each counter as it was
\* or zeroed by the period reset, and a step that calls no governor operation
\* at all (GET /health, a rejected request, a static answer of a process
\* without a credential) leaves the whole record as it was.
C25_OnlyGovernorWrites ==
    [][/\ recorded' = NoTokens => zeroedOrKept(usageStats', usageStats)
       /\ (recorded' = NoTokens /\ canResult' = "none") => usageStats' = usageStats
       /\ (res'.input = 0 /\ res'.status = 200) => usageStats' = usageStats
       /\ (res'.input # 0 /\ res'.status = 400) => usageStats' = usageStats
       /\ (res'.input # 0 /\ res'.status = 200
             /\ res'.note \in {"Using fallback response (default mode)",
                               "Using fallback response (usage limit reached)",
                               "Using fallback response (lifetime spend limit reached)",
                               "Using fallback response (OpenAI not configured)",
                               "Asking for clarification before using OpenAI"})
            => zeroedOrKept(usageStats', usageStats)]_vars

\* GET /health answered by a process that has counted requests and spend
C25_Witness ==
    /\ healthAnswered
    /\ usageStats.dailyRequests > 0
    /\ usageStats.lifetimeSpend > 0

\* C26: in every state between two operations openaiDisabled is true exactly
\* when lifetimeSpend >= LIFETIME_SPEND_LIMIT; updateUsageStats sets it in the
\* step in which lifetimeSpend reaches the limit.
C26_LatchAgreesWithLifetime ==
    usageStats.openaiDisabled <=> usageStats.lifetimeSpend >= LIFETIME_SPEND_LIMIT

\* the reply whose cost took lifetimeSpend from below the limit to the limit
C26_Witness ==
    /\ recorded # NoTokens
    /\ usageStats.openaiDisabled
    /\ usageStats.lifetimeSpend >= LIFETIME_SPEND_LIMIT
    /\ usageStats.lifetimeSpend - (recorded * COST_PER_1K_TOKENS) \div 1000
          < LIFETIME_SPEND_LIMIT

\* C27: with at most MaxRequests chat requests in flight, dailyRequests never
\* exceeds DAILY_REQUESTS + MaxRequests - 1 and monthlyRequests never exceeds
\* MONTHLY_REQUESTS + MaxRequests - 1.
C27_OvershootBounded ==
    /\ InFlight <= MaxRequests
    /\ usageStats.dailyRequests <= DAILY_REQUESTS + MaxRequests - 1
    /\ usageStats.monthlyRequests <= MONTHLY_REQUESTS + MaxRequests - 1
    /\ usageStats.dailyRequests + Suspended <= DAILY_REQUESTS + MaxRequests - 1
    /\ usageStats.monthlyRequests + Suspended <= MONTHLY_REQUESTS + MaxRequests - 1

\* the largest overshoot: every request in flight passed the check below the
\* daily ceiling and has been recorded
C27_Witness ==
    /\ usageStats.dailyRequests = DAILY_REQUESTS + MaxRequests - 1
    /\ recorded # NoTokens
    /\ Suspended = 0

\* the monthly-cost test of canMakeOpenAIRequest is met by the usage record
monthlyCostReached ==
    usageStats.totalCost + estimatedRequestCost >= MAX_MONTHLY_COST

\* C28: totalCost <= lifetimeSpend in every state, and the monthly-cost test
\* is never the reason for a refusal: whenever it is met, lifetimeSpend has
\* reached LIFETIME_SPEND_LIMIT, so a refusal is due to the lifetime check, the
\* daily ceiling or the monthly ceiling.
C28_MonthlyCostNeverDecides ==
    /\ usageStats.totalCost <= usageStats.lifetimeSpend
    /\ LIFETIME_SPEND_LIMIT + estimatedRequestCost < MAX_MONTHLY_COST
    /\ monthlyCostReached => usageStats.lifetimeSpend >= LIFETIME_SPEND_LIMIT
    /\ canResult = "false" =>
          \/ usageStats.lifetimeSpend >= LIFETIME_SPEND_LIMIT
          \/ usageStats.dailyRequests >= DAILY_REQUESTS
          \/ usageStats.monthlyRequests >= MONTHLY_REQUESTS

\* a refusal in a month whose cost has passed MAX_MONTHLY_COST
C28_Witness ==
    /\ canResult = "false"
    /\ monthlyCostReached
    /\ usageStats.totalCost > 0

\* the date read now has the day of the month and the month of lastReset
unchangedDate ==
    /\ getDate(now) = getDate(usageStats.lastReset)
    /\ getMonth(now) = getMonth(usageStats.lastReset)

\* C29: when the day and the month have not changed since the request
\* arrived, the triggered path of the fallback branch refuses: it starts no
\* upstream call and does not send the clarification prompt; and the check
\* inside callOpenAI repeats the result of the check that led to it.
C29_RepeatedCheckSameResult ==
    [][/\ (running.pc = "detailCheck" /\ running' # running
             /\ (usageStats.openaiDisabled \/ unchangedDate)) =>
             /\ canResult' = "false"
             /\ ~started'
             /\ running' = Idle
             /\ Suspended' = Suspended
             /\ res'.input = running.input
             /\ res'.note \in {"Using fallback response (usage limit reached)",
                               "Using fallback response (lifetime spend limit reached)"}
       /\ (running.pc \in {"callDefault", "callDetailed"} /\ running' # running
             /\ unchangedDate) =>
             /\ canResult' = "true"
             /\ started']_vars

\* "No, be specific" was refused at the monthly ceiling by a process that has
\* a credential, and did not get the clarification prompt
C29_Witness ==
    /\ answered
    /\ res.input = 6
    /\ OPENAI_API_KEY
    /\ canResult = "false"
    /\ res.note = "Using fallback response (usage limit reached)"
    /\ usageStats.monthlyRequests >= MONTHLY_REQUESTS

\* C30: dailyRequests <= monthlyRequests in every state.
C30_DailyWithinMonthly ==
    usageStats.dailyRequests <= usageStats.monthlyRequests

\* a permission check on the first day of a month has zeroed both counters
\* of a process that had recorded spend
C30_Witness ==
    /\ canResult # "none"
    /\ usageStats.lifetimeSpend > 0
    /\ usageStats.monthlyRequests = 0
    /\ usageStats.dailyRequests = 0
    /\ getDate(now) = 1

====
